---- MODULE Spec2Model ----
(***************************************************************************)
(* Model of src/src/routes/lib/v1/PackageRequest.js: the package request   *)
(* handlers (resolve version, list versions, version files, stats), the    *)
(* two metadata fetchers (npm registry race, GitHub tag pagination) and    *)
(* the redis cache they share.                                             *)
(*                                                                         *)
(* Every `await` of a handler is one step of a request; what runs between  *)
(* two awaits is part of the step that precedes it.                        *)
(***************************************************************************)
EXTENDS Integers, Sequences, FiniteSets, TLC

VARIABLES cache, req, race, pager

vars == <<cache, req, race, pager>>

(***************************************************************************)
(* JavaScript values that are not strings.                                 *)
(***************************************************************************)
Undefined == "<undefined>"
Null == "<null>"
NumberZero == "<number 0>"

\* metadata.tags as a JS value: undefined, an array, or a plain object.
TagsUndefined == [js |-> "undefined"]
TagsArray == [js |-> "array", props |-> [k \in {"length"} |-> NumberZero]]
TagsObject(f) == [js |-> "object", props |-> f]

NoError == [kind |-> "none"]
TypeError == [kind |-> "TypeError"]

(***************************************************************************)
(* The semver library, on the version strings of the model.                *)
(***************************************************************************)
\* new SemVer(v): major, minor, patch and the prerelease identifier.
SemVerTable ==
    [v \in {"1.0.0", "1.1.1", "2.0.0", "1.0.0-beta", "2.1.0-beta"} |->
        CASE v = "1.0.0"      -> [major |-> 1, minor |-> 0, patch |-> 0, pre |-> ""]
          [] v = "1.1.1"      -> [major |-> 1, minor |-> 1, patch |-> 1, pre |-> ""]
          [] v = "2.0.0"      -> [major |-> 2, minor |-> 0, patch |-> 0, pre |-> ""]
          [] v = "1.0.0-beta" -> [major |-> 1, minor |-> 0, patch |-> 0, pre |-> "beta"]
          [] v = "2.1.0-beta" -> [major |-> 2, minor |-> 1, patch |-> 0, pre |-> "beta"]]

\* semver.valid(v): truthy exactly for the strings that parse as a version.
valid(v) == v \in DOMAIN SemVerTable

\* semver.prerelease(v): truthy exactly when v has prerelease identifiers.
prerelease(v) == valid(v) /\ SemVerTable[v].pre # ""

Sign(a, b) == IF a < b THEN -1 ELSE IF a > b THEN 1 ELSE 0

\* SemVer.comparePre: a release is greater than any of its prereleases.
comparePre(a, b) ==
    IF a.pre = b.pre THEN 0
    ELSE IF a.pre = "" THEN 1
    ELSE IF b.pre = "" THEN -1
    ELSE IF a.pre = "alpha" THEN -1 ELSE 1

\* semver.compare(a, b) on two valid version strings.
compare(a, b) ==
    LET x == SemVerTable[a]
        y == SemVerTable[b]
    IN  IF x.major # y.major THEN Sign(x.major, y.major)
        ELSE IF x.minor # y.minor THEN Sign(x.minor, y.minor)
        ELSE IF x.patch # y.patch THEN Sign(x.patch, y.patch)
        ELSE comparePre(x, y)

\* semver.rcompare(a, b)
rcompare(a, b) == compare(b, a)

\* Array.prototype.sort(cmp): x goes after every element that does not
\* compare greater than it (stable).
RECURSIVE InsertSorted(_, _)
InsertSorted(x, s) ==
    IF s = <<>> THEN <<x>>
    ELSE IF rcompare(Head(s), x) <= 0 THEN <<Head(s)>> \o InsertSorted(x, Tail(s))
    ELSE <<x>> \o s

RECURSIVE SortRcompare(_)
SortRcompare(s) ==
    IF s = <<>> THEN <<>>
    ELSE InsertSorted(s[Len(s)], SortRcompare(SubSeq(s, 1, Len(s) - 1)))

Elements(s) == {s[i] : i \in DOMAIN s}

\* new Range(range): the ranges of the model. Any other string is no
\* valid range (the constructor throws).
RangeTable ==
    [r \in {"1.x", "2.x", "9.x", "1.0.0", "1.1.1", "2.0.0", "1.0.0-beta", "2.1.0-beta"} |->
        CASE r = "1.x" -> [kind |-> "major", major |-> 1]
          [] r = "2.x" -> [kind |-> "major", major |-> 2]
          [] r = "9.x" -> [kind |-> "major", major |-> 9]
          [] OTHER     -> [kind |-> "exact", version |-> r]]

\* Range.test(v): a prerelease satisfies only a comparator of its own tuple.
satisfies(v, r) ==
    LET rg == RangeTable[r]
    IN  IF rg.kind = "major"
        THEN SemVerTable[v].major = rg.major /\ SemVerTable[v].pre = ""
        ELSE compare(v, rg.version) = 0

\* semver.maxSatisfying(versions, range): null for an invalid range or
\* when nothing satisfies it; the scan keeps the first of equal maxima.
RECURSIVE maxScan(_, _, _)
maxScan(versions, r, max) ==
    IF versions = <<>> THEN max
    ELSE LET v == Head(versions)
         IN  maxScan(Tail(versions), r,
                     IF satisfies(v, r) /\ (max = Null \/ compare(max, v) = -1)
                     THEN v ELSE max)

maxSatisfying(versions, r) ==
    IF r \notin DOMAIN RangeTable THEN Null ELSE maxScan(versions, r, Null)

(***************************************************************************)
(* JSON.stringify / JSON.parse.  A serialized payload keeps the properties *)
(* whose value is not undefined; a payload some other writer left under    *)
(* the key may not parse at all.                                           *)
(***************************************************************************)
Corrupt == [kind |-> "corrupt"]

IsUndefinedProp(o, k) == k = "tags" /\ o[k].js = "undefined"

\* a serialization that loses the tags
Stringify_DropsTags(o) ==
    [kind |-> "json",
     val  |-> [k \in DOMAIN o \ {"tags"} |-> o[k]]]

\* JSON.stringify(o, null, '\t')
Stringify(o) ==
    [kind |-> "json",
     val  |-> [k \in {p \in DOMAIN o : ~IsUndefinedProp(o, p)} |-> o[k]]]

\* JSON.parse(text) throws a SyntaxError on a payload that is no JSON.
ParseThrows(text) == text.kind # "json"
Parse(text) == text.val

\* o.tags, undefined when the parsed object has no such property.
TagsOf(o) == IF "tags" \in DOMAIN o THEN o.tags ELSE TagsUndefined

(***************************************************************************)
(* fetchNpmMetadata, after the race: validation and normalisation of the   *)
(* response that won.                                                      *)
(***************************************************************************)
\* A registry response body: its versions object (keys in upstream order)
\* and its dist-tags, either of which may be missing.
NpmBody(keys, distTags) == [hasVersions |-> TRUE, keys |-> keys, distTags |-> distTags]
NpmBodyNoVersions == [hasVersions |-> FALSE, keys |-> <<>>, distTags |-> TagsUndefined]

Ok(v) == [ok |-> TRUE, val |-> v]
Throw(e) == [ok |-> FALSE, err |-> e]

\* semver.rcompare throws on a string that is no version; sort calls the
\* comparator as soon as there are two elements.
SortThrows(keys) == Len(keys) >= 2 /\ \E i \in DOMAIN keys : ~valid(keys[i])

normalizeNpm(body) ==
    IF ~body.hasVersions
    THEN Throw([kind |-> "Error", what |-> "Unable to retrieve versions"])
    ELSE IF SortThrows(body.keys)
    THEN Throw(TypeError)
    ELSE Ok([tags |-> body.distTags, versions |-> SortRcompare(body.keys)])

(***************************************************************************)
(* fetchGitHubMetadata: the loadMore callback and the whole chain.         *)
(***************************************************************************)
\* _.map(response.data, 'name'): a page is the sequence of its tag objects.
TagNames(data) == [i \in DOMAIN data |-> data[i].name]

\* versions.push(..._.map(response.data, 'name'))
pushNames(versions, data) == versions \o TagNames(data)

\* a cursor that gives up one page early
hasNextPage_OffByOne(k, n) == k + 1 < n

\* response.data && githubApi.hasNextPage(response), for page k of a
\* listing of n pages: the data of a page is an array, which is truthy
\* even when it is empty.
hasNextPage(k, n) == k < n

\* what loadMore returns once there is no next page
ghResult(versions) == [tags |-> TagsArray, versions |-> versions]

RECURSIVE loadAll(_, _, _)
loadAll(pages, k, versions) ==
    LET acc == pushNames(versions, pages[k])
    IN  IF hasNextPage(k, Len(pages)) THEN loadAll(pages, k + 1, acc) ELSE ghResult(acc)

(***************************************************************************)
(* getResolvedVersion, on the parsed metadata.                             *)
(***************************************************************************)
IsRelease(v) == valid(v) /\ ~prerelease(v)

\* metadata.tags.hasOwnProperty(key)
hasOwnProperty(tags, key) == key \in DOMAIN tags.props

First(s) == IF s = <<>> THEN Undefined ELSE s[1]

resolveVersion(metadata, version) ==
    LET versions == SortRcompare(SelectSeq(metadata.versions, IsRelease))
        tags == TagsOf(metadata)
    IN  IF version \in Elements(metadata.versions) THEN Ok(version)
        ELSE IF tags.js = "undefined" THEN Throw(TypeError)
        ELSE IF hasOwnProperty(tags, version) THEN Ok(tags.props[version])
        ELSE IF version = "latest" \/ version = "" THEN Ok(First(versions))
        ELSE Ok(maxSatisfying(versions, version))

(***************************************************************************)
(* fetchMetadata and fetchFiles, given what the upstream answered.         *)
(***************************************************************************)
UnknownType == [kind |-> "Error", what |-> "Unknown package type"]

\* For npm the answer is the body of the response that won the race, for
\* gh the pages of the tag listing.
fetchMetadata(type, answer) ==
    IF type = "npm" THEN normalizeNpm(answer)
    ELSE IF type = "gh" THEN Ok(loadAll(answer, 1, <<>>))
    ELSE Throw(UnknownType)

\* An error of the HTTP client: an HTTPError and a ParseError carry the
\* response they were raised for, a RequestError (refused, timed out)
\* carries none.
HTTPError(status) ==
    [kind |-> "HTTPError", hasResponse |-> TRUE, status |-> status, body |-> "upstream body"]
ParseError(status) ==
    [kind |-> "ParseError", hasResponse |-> TRUE, status |-> status, body |-> "upstream body"]
RequestError ==
    [kind |-> "RequestError", hasResponse |-> FALSE, status |-> 0, body |-> ""]

\* _.pick(response.body, [ 'default', 'files' ])
pick(body) == [k \in DOMAIN body \cap {"default", "files"} |-> body[k]]

\* a fetchFiles whose catch throws a 403 again like any other error
fetchFiles_Rethrows(answer) ==
    IF answer.ok THEN Ok(pick(answer.val))
    ELSE IF ~answer.err.hasResponse THEN Throw(TypeError)
    ELSE Throw(answer.err)

\* fetchFiles: the .then of a response, the .catch of an error.
fetchFiles(answer) ==
    IF answer.ok THEN Ok(pick(answer.val))
    ELSE IF ~answer.err.hasResponse THEN Throw(TypeError)
    ELSE IF answer.err.status = 403
    THEN Ok([status |-> answer.err.status, message |-> answer.err.body])
    ELSE Throw(answer.err)

(***************************************************************************)
(* A request: the PackageRequest built for one incoming query.             *)
(***************************************************************************)
Queries == {"q1"}

Name == "left-pad"

NoBody == [kind |-> "none"]
NoJson == [kind |-> "none"]
NoMetadata == [none |-> TRUE]

Idle ==
    [op |-> "none", type |-> "none", version |-> "", pc |-> "idle", json |-> NoJson,
     metadata |-> NoMetadata, body |-> NoBody, maxAge |-> "unset",
     raised |-> NoError, thrown |-> NoError, upstream |-> NoError, fx |-> <<>>,
     fetched |-> NoMetadata]

\* constructor: this.keys
keys(q) ==
    [files    |-> <<"package", q.type, Name, "@", q.version, "files">>,
     metadata |-> <<"package", q.type, Name, "metadata">>,
     packageStats  |-> <<"package", q.type, Name, "stats">>,
     versionsStats |-> <<"package", q.type, Name, "@", q.version, "stats">>]

\* the router picks the handler; the stats handlers start at the database
PackageRequest(op, type, version) ==
    [Idle EXCEPT !.op = op, !.type = type, !.version = version,
                 !.pc = IF op \in {"packageStats", "versionStats"} THEN "dbQuery" ELSE "metaGet"]

\* responseNotFound
responseNotFound(q) ==
    [q EXCEPT !.pc = "done",
              !.body = [status |-> 404,
                        message |-> <<"Couldn't find ", Name, "@", q.version, ".">>]]

\* an exception that leaves the handler
escape(q, e) == [q EXCEPT !.pc = "done", !.raised = e, !.thrown = e]

\* a handler whose catch is missing
catchNotFound_Missing(q, e) == escape(q, e)

\* the catch of handleResolveVersion, of handleVersions and of the first
\* try of handleVersionFiles
catchNotFound(q, e) == [responseNotFound(q) EXCEPT !.raised = e]

SyntaxError == [kind |-> "SyntaxError"]
RedisError == [kind |-> "RedisError"]
DbError == [kind |-> "DbError"]

\* a handler that does not stop at a version that is not listed
versionNotListed_GoesOn(q) == [q EXCEPT !.pc = "filesGet"]

\* handleVersionFiles, lines 148-153
versionNotListed(q) ==
    [q EXCEPT !.pc = "done",
              !.body = [status |-> 404,
                        message |-> <<"Couldn't find version ", q.version, " for ", Name,
                                      ". Make sure you use a specific version number, and not a version range or a tag.">>]]

\* What each handler does with the serialized metadata once
\* getMetadataAsJson has returned it.
afterMetadataAsJson(q, text) ==
    IF q.op = "versions" THEN [q EXCEPT !.pc = "done", !.body = text]
    ELSE IF ParseThrows(text) THEN catchNotFound(q, SyntaxError)
    ELSE LET metadata == Parse(text)
             p == [q EXCEPT !.metadata = metadata]
         IN  IF q.op = "resolve"
             THEN LET res == resolveVersion(metadata, q.version)
                  IN  IF res.ok
                      THEN [p EXCEPT !.pc = "done", !.body = [version |-> res.val]]
                      ELSE catchNotFound(p, res.err)
             ELSE IF q.version \notin Elements(metadata.versions)
                  THEN versionNotListed(p)
                  ELSE [p EXCEPT !.pc = "filesGet"]

\* the catch of the second try of handleVersionFiles
catchFiles(q, e) ==
    IF e.kind = "ParseError"
    THEN IF ~e.hasResponse THEN escape(q, TypeError)
         ELSE [q EXCEPT !.pc = "done", !.raised = e,
                        !.body = [status |-> IF e.status # 0 THEN e.status ELSE 502,
                                  message |-> e.body]]
    ELSE escape(q, e)

\* handleVersionFiles with the parsed listing
afterFilesAsJson(q, text) ==
    IF ParseThrows(text) THEN catchFiles(q, SyntaxError)
    ELSE [q EXCEPT !.pc = "done", !.body = Parse(text), !.maxAge = "v1.maxAgeStatic"]

Called(q, what) == [q EXCEPT !.fx = Append(q.fx, what)]

(***************************************************************************)
(* The cache: redis keys that hold a value, with the expiry given to SET.  *)
(***************************************************************************)
Cached(key) == key \in DOMAIN cache

\* a store that forgets the expiry it was given
SetKey_NoExpiry(key, text, ex) ==
    [k \in DOMAIN cache \cup {key} |->
        IF k = key THEN [val |-> text, ex |-> "none"] ELSE cache[k]]

\* redis SET key value [EX seconds]
SetKey(key, text, ex) ==
    [k \in DOMAIN cache \cup {key} |->
        IF k = key THEN [val |-> text, ex |-> ex] ELSE cache[k]]

\* v1Config[type].maxAge
maxAgeOf(type) == IF type = "npm" THEN "v1.npm.maxAge" ELSE "v1.gh.maxAge"

\* the store drops an entry that was set with 'EX' once its time is over
Expire(key) ==
    /\ Cached(key)
    /\ cache[key].ex # "none"
    /\ cache' = [k \in DOMAIN cache \ {key} |-> cache[k]]
    /\ UNCHANGED <<req, race, pager>>

(***************************************************************************)
(* getMetadataAsJson, step by step.                                        *)
(***************************************************************************)
\* redis.getAsync(this.keys.metadata) answers
MetaGet(r) ==
    /\ req[r].pc = "metaGet"
    /\ LET q == Called(req[r], "get metadata")
           key == keys(q).metadata
       IN  req' = [req EXCEPT ![r] =
                      IF Cached(key) THEN afterMetadataAsJson(q, cache[key].val)
                      ELSE [q EXCEPT !.pc = "metaFetch"]]
    /\ UNCHANGED <<cache, race, pager>>

\* redis.getAsync(this.keys.metadata) fails
MetaGetError(r) ==
    /\ req[r].pc = "metaGet"
    /\ req' = [req EXCEPT ![r] = catchNotFound(Called(req[r], "get metadata"), RedisError)]
    /\ UNCHANGED <<cache, race, pager>>

\* this.fetchMetadata() settles, the upstream having answered
MetaFetch(r, answers) ==
    /\ req[r].pc = "metaFetch"
    /\ \E answer \in answers :
          LET q == Called(req[r], "fetch metadata")
              res == fetchMetadata(q.type, answer)
          IN  req' = [req EXCEPT ![r] =
                         IF res.ok THEN [q EXCEPT !.pc = "metaSet", !.fetched = res.val,
                                                   !.json = Stringify(res.val)]
                         ELSE catchNotFound(q, res.err)]
    /\ UNCHANGED <<cache, race, pager>>

\* a failed fetch that is remembered under the metadata key
MetaFetchError_Stored(r) ==
    /\ req[r].pc = "metaFetch"
    /\ req[r].type \in {"npm", "gh"}
    /\ \E e \in {HTTPError(403), HTTPError(500), RequestError} :
          LET q == Called(req[r], "fetch metadata")
          IN  /\ req' = [req EXCEPT ![r] = catchNotFound(q, e)]
              /\ cache' = SetKey(keys(q).metadata, Stringify([status |-> 404]), "none")
    /\ UNCHANGED <<race, pager>>

\* every registry source failed, or a page of the tag listing did
MetaFetchError(r) ==
    /\ req[r].pc = "metaFetch"
    /\ req[r].type \in {"npm", "gh"}
    /\ \E e \in {HTTPError(403), HTTPError(500), RequestError} :
          req' = [req EXCEPT ![r] = catchNotFound(Called(req[r], "fetch metadata"), e)]
    /\ UNCHANGED <<cache, race, pager>>

\* a write that keeps an entry that is already there, and answers with it
MetaSet_KeepsFirst(r) ==
    /\ req[r].pc = "metaSet"
    /\ LET q == Called(req[r], "set metadata")
           key == keys(q).metadata
       IN  IF Cached(key)
           THEN /\ cache' = cache
                /\ req' = [req EXCEPT ![r] = afterMetadataAsJson(q, cache[key].val)]
           ELSE /\ cache' = SetKey(key, q.json, maxAgeOf(q.type))
                /\ req' = [req EXCEPT ![r] = afterMetadataAsJson(q, q.json)]
    /\ UNCHANGED <<race, pager>>

\* redis.setAsync(this.keys.metadata, metadata, 'EX', maxAge) answers
MetaSet(r) ==
    /\ req[r].pc = "metaSet"
    /\ LET q == Called(req[r], "set metadata")
       IN  /\ cache' = SetKey(keys(q).metadata, q.json, maxAgeOf(q.type))
           /\ req' = [req EXCEPT ![r] = afterMetadataAsJson(q, q.json)]
    /\ UNCHANGED <<race, pager>>

\* redis.setAsync(this.keys.metadata, ...) fails
MetaSetError(r) ==
    /\ req[r].pc = "metaSet"
    /\ req' = [req EXCEPT ![r] = catchNotFound(Called(req[r], "set metadata"), RedisError)]
    /\ UNCHANGED <<cache, race, pager>>

(***************************************************************************)
(* getFilesAsJson, step by step (handleVersionFiles, second try).          *)
(***************************************************************************)
\* redis.getAsync(this.keys.files) answers
FilesGet(r) ==
    /\ req[r].pc = "filesGet"
    /\ LET q == Called(req[r], "get files")
           key == keys(q).files
       IN  req' = [req EXCEPT ![r] =
                      IF Cached(key) THEN afterFilesAsJson(q, cache[key].val)
                      ELSE [q EXCEPT !.pc = "filesFetch"]]
    /\ UNCHANGED <<cache, race, pager>>

\* redis.getAsync(this.keys.files) fails
FilesGetError(r) ==
    /\ req[r].pc = "filesGet"
    /\ req' = [req EXCEPT ![r] = catchFiles(Called(req[r], "get files"), RedisError)]
    /\ UNCHANGED <<cache, race, pager>>

\* what the file-listing service may answer
CdnListings ==
    {[default |-> "/index.js", files |-> "index.js, lib.js", version |-> "1.0.0"],
     [files |-> "index.js"]}
CdnErrors == {HTTPError(403), HTTPError(404), HTTPError(500), ParseError(200), RequestError}
CdnAnswers == {Ok(b) : b \in CdnListings} \cup {Throw(e) : e \in CdnErrors}

\* this.fetchFiles() settles
FilesFetch(r) ==
    /\ req[r].pc = "filesFetch"
    /\ \E answer \in CdnAnswers :
          LET q == [Called(req[r], "fetch files") EXCEPT
                      !.upstream = IF answer.ok THEN NoError ELSE answer.err]
              res == fetchFiles(answer)
          IN  req' = [req EXCEPT ![r] =
                         IF res.ok THEN [q EXCEPT !.pc = "filesSet", !.json = Stringify(res.val)]
                         ELSE catchFiles(q, res.err)]
    /\ UNCHANGED <<cache, race, pager>>

\* redis.setAsync(this.keys.files, files) answers
FilesSet(r) ==
    /\ req[r].pc = "filesSet"
    /\ LET q == Called(req[r], "set files")
       IN  /\ cache' = SetKey(keys(q).files, q.json, "none")
           /\ req' = [req EXCEPT ![r] = afterFilesAsJson(q, q.json)]
    /\ UNCHANGED <<race, pager>>

\* redis.setAsync(this.keys.files, files) fails
FilesSetError(r) ==
    /\ req[r].pc = "filesSet"
    /\ req' = [req EXCEPT ![r] = catchFiles(Called(req[r], "set files"), RedisError)]
    /\ UNCHANGED <<cache, race, pager>>

(***************************************************************************)
(* handlePackageStats and handleVersionStats.                              *)
(***************************************************************************)
\* a nested mapping: a number, or an object of nested mappings
Num(n) == [t |-> "num", n |-> n, kids |-> <<>>]
Obj(f) == [t |-> "obj", n |-> 0, kids |-> f]

\* utils/sumDeep: the sum of the leaves within depth levels (one level
\* when depth is below 1); what is no number there counts as zero.
RECURSIVE sumWithin(_, _)
RECURSIVE sumKids(_, _, _)
sumKids(f, ks, depth) ==
    IF ks = {} THEN 0
    ELSE LET k == CHOOSE x \in ks : TRUE
         IN  sumWithin(f[k], depth) + sumKids(f, ks \ {k}, depth)
sumWithin(node, depth) ==
    IF node.t = "num" THEN node.n
    ELSE IF depth < 1 THEN 0
    ELSE sumKids(node.kids, DOMAIN node.kids, depth - 1)
sumDeep(node, depth) == sumWithin(node, IF depth < 1 THEN 1 ELSE depth)

\* sumDeep(collection) and sumDeep(collection, depth) as the handlers call it
sumDeepDefault(node) == sumDeep(node, 1)

\* _.mapValues(data, dates => ({ total: sumDeep(dates), dates }))
withTotals(data) ==
    Obj([k \in DOMAIN data.kids |->
            Obj([total |-> Num(sumDeepDefault(data.kids[k])), dates |-> data.kids[k]])])

\* what Package.getSumVersionHitsPerFileAndDateByName may return: hits per
\* version and day
DbData ==
    {Obj(<<>>),
     Obj([a |-> Obj([d1 |-> Num(1), d2 |-> Num(2)]), b |-> Obj([d1 |-> Num(3)])])}

packageStatsBody(data) ==
    [total |-> sumDeep(data, 2), versions |-> withTotals(data)]

\* what PackageVersion.findAllFileHitsByNameAndVersion may return: per
\* file, rows with a Date and the hits of that day
Row(day, time, hits) == [date |-> [day |-> day, time |-> time], hits |-> hits]
DbFileHits ==
    {<<>>,
     [index |-> <<Row("2017-06-01", "T00:00:00.000Z", 1), Row("2017-06-02", "T00:00:00.000Z", 2)>>,
      lib   |-> <<Row("2017-06-01", "T00:00:00.000Z", 3)>>]}

\* fileHits.date.toISOString().substr(0, 10)
isoDay(date) == date.day

\* _.fromPairs(_.map(fileHits, ...)): a later pair replaces an earlier
\* one with the same key
fromPairs(rows) ==
    Obj([d \in {isoDay(rows[i].date) : i \in DOMAIN rows} |->
            LET last == CHOOSE i \in DOMAIN rows :
                            /\ isoDay(rows[i].date) = d
                            /\ \A j \in DOMAIN rows : isoDay(rows[j].date) = d => j <= i
            IN  Num(rows[last].hits)])

versionStatsBody(fileHits) ==
    LET data == Obj([f \in DOMAIN fileHits |->
                        LET dates == fromPairs(fileHits[f])
                        IN  Obj([total |-> Num(sumDeepDefault(dates)), dates |-> dates])])
    IN  [total |-> sumDeep(data, 3), files |-> data]

\* a stats handler that keeps its payload under the key of the constructor
DbQuery_Stored(r) ==
    /\ req[r].pc = "dbQuery"
    /\ \E data \in IF req[r].op = "packageStats" THEN DbData ELSE DbFileHits :
          LET q == Called(req[r], "db")
              body == IF q.op = "packageStats" THEN packageStatsBody(data)
                      ELSE versionStatsBody(data)
              key == IF q.op = "packageStats" THEN keys(q).packageStats
                     ELSE keys(q).versionsStats
          IN  /\ req' = [req EXCEPT ![r] =
                            [q EXCEPT !.pc = "done", !.maxAge = "setCacheHeader",
                                      !.body = body]]
              /\ cache' = SetKey(key, Stringify(body), "none")
    /\ UNCHANGED <<race, pager>>

\* the query of Package / PackageVersion answers
DbQuery(r) ==
    /\ req[r].pc = "dbQuery"
    /\ \E data \in IF req[r].op = "packageStats" THEN DbData ELSE DbFileHits :
          LET q == Called(req[r], "db")
          IN  req' = [req EXCEPT ![r] =
                         [q EXCEPT !.pc = "done", !.maxAge = "setCacheHeader",
                                   !.body = IF q.op = "packageStats"
                                            THEN packageStatsBody(data)
                                            ELSE versionStatsBody(data)]]
    /\ UNCHANGED <<cache, race, pager>>

\* the query fails: no handler of the stats catches
DbQueryError(r) ==
    /\ req[r].pc = "dbQuery"
    /\ req' = [req EXCEPT ![r] = escape(Called(req[r], "db"), DbError)]
    /\ UNCHANGED <<cache, race, pager>>

(***************************************************************************)
(* The orchestrator: queries arrive one after another on a shared cache.   *)
(***************************************************************************)
Ops == {"resolve", "versions", "files", "packageStats", "versionStats"}
Types == {"npm", "gh", "other"}
Versions == {"", "latest", "1.x", "1.0.0"}

\* what the upstream may answer to a metadata fetch
NpmAnswers ==
    {NpmBody(<<"1.0.0", "2.0.0">>, TagsObject([latest |-> "2.0.0"])),
     NpmBody(<<"1.0.0">>, TagsUndefined),
     NpmBodyNoVersions}
GhAnswers ==
    {<<<<[name |-> "master"], [name |-> "1.0.0"]>>>>}
MetaAnswers(type) ==
    IF type = "npm" THEN NpmAnswers ELSE IF type = "gh" THEN GhAnswers ELSE {<<>>}

\* the store as a query may find it: empty, or with a metadata payload of
\* some other writer that is no JSON
InitialCaches ==
    {<<>>} \cup
    {[k \in {<<"package", t, Name, "metadata">>} |-> [val |-> Corrupt, ex |-> "none"]] :
        t \in {"npm", "gh"}}

RaceIdle == [pc |-> "idle"]
PagerIdle == [pc |-> "idle"]

Init ==
    /\ cache \in InitialCaches
    /\ req = [r \in Queries |-> Idle]
    /\ race = RaceIdle
    /\ pager = PagerIdle

\* a query arrives once the previous one has been answered
Arrive(r) ==
    /\ req[r].pc \in {"idle", "done"}
    /\ \E op \in Ops, type \in Types, version \in Versions :
          req' = [req EXCEPT ![r] = PackageRequest(op, type, version)]
    /\ UNCHANGED <<cache, race, pager>>

Next ==
    \/ \E r \in Queries :
          \/ Arrive(r)
          \/ MetaGet(r) \/ MetaGetError(r)
          \/ MetaFetch(r, MetaAnswers(req[r].type)) \/ MetaFetchError(r)
          \/ MetaSet(r) \/ MetaSetError(r)
          \/ FilesGet(r) \/ FilesGetError(r)
          \/ FilesFetch(r)
          \/ FilesSet(r) \/ FilesSetError(r)
          \/ DbQuery(r) \/ DbQueryError(r)
    \/ \E key \in DOMAIN cache : Expire(key)

Spec == Init /\ [][Next]_vars

(***************************************************************************)
(* Queries in flight at the same time: every await of a handler is a point *)
(* where the other handler may run, on the same store.                     *)
(***************************************************************************)
Clients == {"q1", "q2"}

\* the registry between two fetches: a version has been published
SharedAnswers ==
    {NpmBody(<<"1.0.0">>, TagsObject([latest |-> "1.0.0"])),
     NpmBody(<<"1.0.0", "2.0.0">>, TagsObject([latest |-> "2.0.0"]))}

InitShared ==
    /\ cache = <<>>
    /\ req = [r \in Clients |-> Idle]
    /\ race = RaceIdle
    /\ pager = PagerIdle

\* a query for the one package arrives, whatever the other query is doing
ArriveShared(r) ==
    /\ req[r].pc \in {"idle", "done"}
    /\ \E op \in {"versions", "files"} :
          req' = [req EXCEPT ![r] = PackageRequest(op, "npm", "1.0.0")]
    /\ UNCHANGED <<cache, race, pager>>

NextShared ==
    \/ \E r \in Clients :
          \/ ArriveShared(r)
          \/ MetaGet(r)
          \/ MetaFetch(r, SharedAnswers) \/ MetaFetchError(r)
          \/ MetaSet(r)
          \/ FilesGet(r)
          \/ FilesFetch(r)
          \/ FilesSet(r)
    \/ \E key \in DOMAIN cache : Expire(key)

SpecShared == InitShared /\ [][NextShared]_vars

(***************************************************************************)
(* Version resolution on its own: one resolve query on an empty cache,     *)
(* against every metadata the two fetchers can produce from the version    *)
(* names below.                                                            *)
(***************************************************************************)
MaxVersions == 3

VersionNames == {"1.0.0", "1.1.1", "2.0.0", "1.0.0-beta", "2.1.0-beta", "master"}
Specifiers == {"", "latest", "beta", "length", "1.x", "9.x", "1.0.0", "2.1.0-beta", "master"}

\* the version lists an upstream may hold, in any order
VersionLists ==
    {s \in UNION {[1..n -> VersionNames] : n \in 0..MaxVersions} :
        \A i, j \in DOMAIN s : i # j => s[i] # s[j]}

\* the dist-tags of a registry response: missing, empty, pointing at a
\* release, at a prerelease, or at a version the response does not list
DistTags ==
    {TagsUndefined, TagsObject(<<>>),
     TagsObject([latest |-> "1.0.0"]), TagsObject([latest |-> "2.0.0"]),
     TagsObject([latest |-> "3.0.0"]),
     TagsObject([latest |-> "2.0.0", beta |-> "2.1.0-beta"])}

ResolveAnswers(type) ==
    IF type = "npm"
    THEN {NpmBody(s, t) : s \in VersionLists, t \in DistTags} \cup {NpmBodyNoVersions}
    ELSE {<<[i \in DOMAIN s |-> [name |-> s[i]]]>> : s \in VersionLists}

InitResolve ==
    /\ cache = <<>>
    /\ \E type \in {"npm", "gh"}, version \in Specifiers :
          req = [r \in Queries |-> PackageRequest("resolve", type, version)]
    /\ race = RaceIdle
    /\ pager = PagerIdle

NextResolve ==
    \E r \in Queries :
        \/ MetaGet(r)
        \/ MetaFetch(r, ResolveAnswers(req[r].type))
        \/ MetaSet(r)

SpecResolve == InitResolve /\ [][NextResolve]_vars

(***************************************************************************)
(* What the claims say about a resolved query.                             *)
(***************************************************************************)
\* a resolve query that was answered after its metadata had been obtained
Resolved(q) == q.op = "resolve" /\ q.pc = "done" /\ q.metadata # NoMetadata

IsVersionPayload(b) == DOMAIN b = {"version"}

NotFoundPayload(q) ==
    [status |-> 404, message |-> <<"Couldn't find ", Name, "@", q.version, ".">>]

\* the members of versions that are valid and no prerelease
Releases(m) == {v \in Elements(m.versions) : valid(v) /\ ~prerelease(v)}

\* the greatest of a set of versions under semantic-version precedence
IsGreatest(v, S) == v \in S /\ \A w \in S : compare(v, w) >= 0

IsTagKey(m, k) == "tags" \in DOMAIN m /\ m.tags.js # "undefined" /\ k \in DOMAIN m.tags.props

IsLatestKeyword(v) == v = "" \/ v = "latest"

Satisfying(m, range) ==
    IF range \in DOMAIN RangeTable THEN {v \in Releases(m) : satisfies(v, range)} ELSE {}

\* the outcome of a rule that picks from the set S: its greatest member
\* or, when S is empty, no version at all
PicksFrom(q, S) ==
    IF S = {} THEN ~(IsVersionPayload(q.body) /\ q.body.version \in VersionNames)
    ELSE IsVersionPayload(q.body) /\ IsGreatest(q.body.version, S)

\* C1: the rules are applied in strict priority order: exact member of
\* versions, then tag key, then the latest keyword, then range; the
\* outcome is always that of the first rule that matches.
C1_RulesInPriorityOrder ==
    \A r \in Queries :
        LET q == req[r]
            m == q.metadata
        IN  Resolved(q) =>
                IF q.version \in Elements(m.versions) THEN q.body = [version |-> q.version]
                ELSE IF IsTagKey(m, q.version)
                THEN q.body = [version |-> m.tags.props[q.version]]
                ELSE IF IsLatestKeyword(q.version) THEN PicksFrom(q, Releases(m))
                ELSE PicksFrom(q, Satisfying(m, q.version))

\* The priority order as far as the tag lookup can be evaluated: the
\* statement of C1 for metadata that has a tags value.
C1_PriorityWhenTagsPresent ==
    \A r \in Queries :
        (Resolved(req[r]) /\ "tags" \in DOMAIN req[r].metadata) =>
            LET q == req[r]
                m == q.metadata
            IN  IF q.version \in Elements(m.versions) THEN q.body = [version |-> q.version]
                ELSE IF IsTagKey(m, q.version)
                THEN q.body = [version |-> m.tags.props[q.version]]
                ELSE IF IsLatestKeyword(q.version) THEN PicksFrom(q, Releases(m))
                ELSE PicksFrom(q, Satisfying(m, q.version))

\* C2: a version payload always carries a member of the versions list of
\* the metadata it was resolved against.
C2_ResolvedIsMember ==
    \A r \in Queries :
        (Resolved(req[r]) /\ IsVersionPayload(req[r].body)) =>
            req[r].body.version \in Elements(req[r].metadata.versions)

NoRuleMatches(m, v) ==
    /\ v \notin Elements(m.versions)
    /\ ~IsTagKey(m, v)
    /\ IF IsLatestKeyword(v) THEN Releases(m) = {} ELSE Satisfying(m, v) = {}

\* C3: when the metadata was obtained and no rule matches, the answer is
\* the 404 payload, never a version payload without a version.
C3_NoMatchIsNotFound ==
    \A r \in Queries :
        (Resolved(req[r]) /\ NoRuleMatches(req[r].metadata, req[r].version)) =>
            req[r].body = NotFoundPayload(req[r])

\* C4: past the exact and the tag rule, the latest keyword yields the
\* greatest valid non-prerelease member of versions and a range the
\* greatest such member that satisfies it, whatever the upstream order
\* and whether tags is populated, empty or missing.
C4_GreatestRelease ==
    \A r \in Queries :
        LET q == req[r]
            m == q.metadata
            S == IF IsLatestKeyword(q.version) THEN Releases(m) ELSE Satisfying(m, q.version)
        IN  (/\ Resolved(q)
             /\ q.version \notin Elements(m.versions)
             /\ ~IsTagKey(m, q.version)
             /\ S # {})
            => (IsVersionPayload(q.body) /\ IsGreatest(q.body.version, S))

(***************************************************************************)
(* What the claims say about the answer of a handler.                      *)
(***************************************************************************)
Done(q) == q.pc = "done"

Failed(q) == q.raised # NoError

HasStatusAndMessage(b) == {"status", "message"} \subseteq DOMAIN b

C6_EveryFailureIsStructured ==
    \A r \in Queries :
        (Done(req[r]) /\ Failed(req[r])) =>
            /\ req[r].thrown = NoError
            /\ HasStatusAndMessage(req[r].body)

\* the file-listing fetch of a validated version failed, and nothing
\* else did
ListingFailed(q) ==
    /\ Done(q) /\ q.op = "files"
    /\ q.upstream # NoError
    /\ q.raised # RedisError

\* C7: a failed file-listing fetch yields a payload whose status is the
\* upstream status when the failure carries one, and 502 when it does not.
C7_ListingStatusPreserved ==
    \A r \in Queries :
        ListingFailed(req[r]) =>
            /\ req[r].thrown = NoError
            /\ HasStatusAndMessage(req[r].body)
            /\ req[r].body.status =
                  IF req[r].upstream.hasResponse THEN req[r].upstream.status ELSE 502

TouchedFiles(q) ==
    \E i \in DOMAIN q.fx : q.fx[i] \in {"get files", "fetch files", "set files"}

VersionNotListedPayload(q) ==
    [status |-> 404,
     message |-> <<"Couldn't find version ", q.version, " for ", Name,
                   ". Make sure you use a specific version number, and not a version range or a tag.">>]

\* VersionFiles goes on to the file listing only for a version that is
\* literally a member of metadata.versions; any other specifier gets the
\* 'specific version' payload, and a query whose metadata cannot be
\* obtained the general not-found payload, in both cases without a
\* redis call or a fetch for the files key.
OnlyListedVersions ==
    \A r \in Queries :
        LET q == req[r]
        IN  (q.op = "files" /\ q.pc \in {"done", "filesGet", "filesFetch", "filesSet"}) =>
                IF q.metadata = NoMetadata
                THEN Done(q) /\ q.body = NotFoundPayload(q) /\ ~TouchedFiles(q)
                ELSE IF q.version \notin Elements(q.metadata.versions)
                THEN Done(q) /\ q.body = VersionNotListedPayload(q) /\ ~TouchedFiles(q)
                ELSE TRUE

\* the files key is left alone by a query until it has passed validation
FilesKeyUntouched ==
    [][\A r \in Queries :
          (req[r].op = "files" /\ req[r].pc \in {"metaGet", "metaFetch", "metaSet"}
              /\ req'[r].pc # "filesGet")
          => (\A k \in DOMAIN cache \cup DOMAIN cache' :
                 (k = keys(req[r]).files) =>
                     (k \in DOMAIN cache /\ k \in DOMAIN cache' /\ cache'[k] = cache[k])
                     \/ (k \notin DOMAIN cache /\ k \notin DOMAIN cache'))]_vars

\* C8: VersionFiles accepts only a version that is literally a member of
\* metadata.versions: any other specifier gets the 'specific version'
\* 404 payload, a query whose metadata cannot be obtained gets the
\* general not-found payload, and in both cases the files key is neither
\* read nor written and no file listing is fetched, whatever is cached.
C8_OnlyListedVersions == [](OnlyListedVersions) /\ FilesKeyUntouched

\* a tag name was rejected although the metadata maps it
C8_Witness ==
    \E r \in Queries :
        /\ Done(req[r]) /\ req[r].op = "files"
        /\ req[r].metadata # NoMetadata
        /\ IsTagKey(req[r].metadata, req[r].version)
        /\ req[r].body = VersionNotListedPayload(req[r])

\* the metadata could not be obtained while a listing was cached
C8_WitnessCachedListing ==
    \E r \in Queries :
        /\ Done(req[r]) /\ req[r].op = "files"
        /\ req[r].metadata = NoMetadata
        /\ Cached(keys(req[r]).files)
        /\ req[r].body = NotFoundPayload(req[r])

(***************************************************************************)
(* fetchNpmMetadata step by step: the requests to the configured registry  *)
(* sources settle one by one, in any order; Promise.any settles with the   *)
(* first response, or fails once every request has failed.                 *)
(***************************************************************************)
MaxSources == 3

AggregateError == [kind |-> "AggregateError"]

\* what a registry source may answer with
RaceBodies ==
    {NpmBody(<<"1.0.0">>, TagsObject([latest |-> "1.0.0"])),
     NpmBody(<<"1.0.0", "2.0.0">>, TagsObject([latest |-> "2.0.0"])),
     NpmBodyNoVersions}

\* v1Config.npm.sourceUrl is one URL (a string) or a list of n URLs; got
\* is called for each before anything settles
RaceStart(n, single) ==
    [pc |-> "racing", n |-> n, single |-> single,
     status |-> [i \in 1..n |-> "pending"],
     answer |-> [i \in 1..n |-> NpmBodyNoVersions],
     error |-> [i \in 1..n |-> NoError],
     winner |-> 0, order |-> <<>>, result |-> Throw(NoError)]

InitRace ==
    /\ cache = <<>>
    /\ req = [r \in Queries |-> Idle]
    /\ pager = PagerIdle
    /\ \E n \in 1..MaxSources, single \in BOOLEAN :
          /\ single => n = 1
          /\ race = RaceStart(n, single)

\* the first response to arrive settles the race; a later one is dropped
firstSuccess_LastWins(winner, i) == i
firstSuccess(winner, i) == IF winner = 0 THEN i ELSE winner

\* the request to source i is answered
SourceResponds(i) ==
    /\ race.pc # "idle"
    /\ i \in 1..race.n
    /\ race.status[i] = "pending"
    /\ \E body \in RaceBodies :
          race' = [race EXCEPT !.status[i] = "ok", !.answer[i] = body,
                               !.winner = firstSuccess(race.winner, i),
                               !.order = Append(race.order, i)]
    /\ UNCHANGED <<cache, req, pager>>

\* the request to source i fails or times out
SourceFails(i) ==
    /\ race.pc # "idle"
    /\ i \in 1..race.n
    /\ race.status[i] = "pending"
    /\ \E e \in {HTTPError(404), RequestError} :
          race' = [race EXCEPT !.status[i] = "failed", !.error[i] = e]
    /\ UNCHANGED <<cache, req, pager>>

\* Promise.any rejects once no request can win any more
allFailed_AnyFailed(status) == \E i \in DOMAIN status : status[i] = "failed"
allFailed(status) == \A i \in DOMAIN status : status[i] = "failed"

\* the await returns a response: lines 242-249
RaceReturns ==
    /\ race.pc = "racing"
    /\ race.winner # 0
    /\ race' = [race EXCEPT !.pc = "done", !.result = normalizeNpm(race.answer[race.winner])]
    /\ UNCHANGED <<cache, req, pager>>

\* the await throws: the error of the one request, or the aggregate
RaceThrows ==
    /\ race.pc = "racing"
    /\ race.winner = 0
    /\ allFailed(race.status)
    /\ race' = [race EXCEPT !.pc = "done",
                            !.result = Throw(IF race.single THEN race.error[1]
                                             ELSE AggregateError)]
    /\ UNCHANGED <<cache, req, pager>>

NextRace ==
    \/ \E i \in 1..MaxSources : SourceResponds(i) \/ SourceFails(i)
    \/ RaceReturns
    \/ RaceThrows

SpecRace == InitRace /\ [][NextRace]_vars

(***************************************************************************)
(* fetchGitHubMetadata step by step: one page request in flight at a time. *)
(***************************************************************************)
MaxPages == 3
PerPage == 100
ShortPage == 37

\* page p of a listing whose pages have the given sizes: tag objects with
\* a name of their own
PageOf(sizes, p) == [i \in 1..sizes[p] |-> [name |-> <<p, i>>]]
Listing(sizes) == [p \in DOMAIN sizes |-> PageOf(sizes, p)]

PageListings ==
    {Listing(sizes) : sizes \in UNION {[1..n -> {0, 1, ShortPage, PerPage}] : n \in 1..MaxPages}}

\* githubApi.repos.getTags({ repo, owner, per_page: 100 }) has been called
PagerStart(pages) ==
    [pc |-> "waiting", pages |-> pages, k |-> 1, versions |-> <<>>,
     asked |-> <<1>>, received |-> <<>>, logged |-> FALSE, result |-> Throw(NoError)]

InitPages ==
    /\ cache = <<>>
    /\ req = [r \in Queries |-> Idle]
    /\ race = RaceIdle
    /\ \E pages \in PageListings : pager = PagerStart(pages)

\* loadMore runs on the response of page k
PageArrives ==
    /\ pager.pc = "waiting"
    /\ LET versions == pushNames(pager.versions, pager.pages[pager.k])
           received == Append(pager.received, pager.k)
       IN  pager' =
              IF hasNextPage(pager.k, Len(pager.pages))
              THEN [pager EXCEPT !.versions = versions, !.received = received,
                                 !.k = pager.k + 1, !.asked = Append(pager.asked, pager.k + 1)]
              ELSE [pager EXCEPT !.versions = versions, !.received = received,
                                 !.pc = "done", !.result = Ok(ghResult(versions))]
    /\ UNCHANGED <<cache, req, race>>

\* the request of page k fails: the catch logs a 403 and throws again
PageFails ==
    /\ pager.pc = "waiting"
    /\ \E code \in {403, 500} :
          pager' = [pager EXCEPT !.pc = "failed", !.logged = (code = 403),
                                 !.result = Throw([kind |-> "HttpError", code |-> code])]
    /\ UNCHANGED <<cache, req, race>>

NextPages == PageArrives \/ PageFails

SpecPages == InitPages /\ [][NextPages]_vars

\* every page request is answered or times out
FairSpecPages == SpecPages /\ WF_vars(NextPages)

(***************************************************************************)
(* What the claims say about the two fetchers.                             *)
(***************************************************************************)
AllRequestsFailed == \A i \in 1..race.n : race.status[i] = "failed"

\* val is the metadata made of the body of a response
IsDataOf(val, body) ==
    /\ val.tags = body.distTags
    /\ Len(val.versions) = Len(body.keys)
    /\ Elements(val.versions) = Elements(body.keys)

\* the body passes the validation and the normalisation of lines 242-249
Usable(body) ==
    body.hasVersions /\ (Len(body.keys) < 2 \/ \A i \in DOMAIN body.keys : valid(body.keys[i]))

\* C9 as stated: the fetch returns the data of a request that succeeded
\* whenever one did, and fails if and only if all requests failed.
C9_FailsIffAllFail ==
    race.pc = "done" =>
        /\ ~race.result.ok <=> AllRequestsFailed
        /\ race.result.ok =>
              \E i \in 1..race.n :
                  race.status[i] = "ok" /\ IsDataOf(race.result.val, race.answer[i])

\* C9, amended: the fetch fails when all requests failed; otherwise the
\* first request to succeed decides alone, whatever the others do: the
\* fetch returns its data when that response is usable and fails when
\* it is not.
C9_FirstSuccessDecides ==
    race.pc = "done" =>
        IF AllRequestsFailed THEN ~race.result.ok
        ELSE /\ race.order # <<>>
             /\ LET first == race.order[1]
                IN  /\ race.status[first] = "ok"
                    /\ race.result.ok <=> Usable(race.answer[first])
                    /\ race.result.ok => IsDataOf(race.result.val, race.answer[first])

\* three sources, one success among two failures, and its data returned
C9_Witness ==
    /\ race.pc = "done" /\ race.n >= 3
    /\ Cardinality({i \in 1..race.n : race.status[i] = "ok"}) = 1
    /\ Cardinality({i \in 1..race.n : race.status[i] = "failed"}) = race.n - 1
    /\ race.result.ok
    /\ \E i \in 1..race.n :
          race.status[i] = "ok" /\ IsDataOf(race.result.val, race.answer[i])

\* the tag names of all pages, in page order
RECURSIVE Flatten(_)
Flatten(pages) ==
    IF pages = <<>> THEN <<>>
    ELSE Flatten(SubSeq(pages, 1, Len(pages) - 1))
            \o [i \in DOMAIN pages[Len(pages)] |-> pages[Len(pages)][i].name]

RECURSIVE TotalSize(_)
TotalSize(pages) ==
    IF pages = <<>> THEN 0 ELSE Len(Head(pages)) + TotalSize(Tail(pages))

Counting(s) == s = [i \in 1..Len(s) |-> i]

NoDuplicates(s) == \A i, j \in DOMAIN s : i # j => s[i] # s[j]

PagerEnded == pager.pc \in {"done", "failed"}

\* pages are asked for one at a time and in order, the listing ends with
\* its last page, and the versions are the names of all pages, each once
PagesInOrder ==
    /\ Counting(pager.asked) /\ Counting(pager.received)
    /\ Len(pager.asked) <= Len(pager.pages)
    /\ Len(pager.asked) = Len(pager.received) + (IF pager.pc = "done" THEN 0 ELSE 1)
    /\ pager.versions = Flatten(SubSeq(pager.pages, 1, Len(pager.received)))
    /\ pager.pc = "done" =>
          /\ Len(pager.received) = Len(pager.pages)
          /\ pager.result.ok
          /\ pager.result.val.versions = Flatten(pager.pages)
          /\ Len(pager.result.val.versions) = TotalSize(pager.pages)
          /\ NoDuplicates(pager.result.val.versions)

\* C10: page k+1 is requested only after page k has arrived, the loop
\* stops exactly at the page without a successor, the versions are the
\* concatenation of all pages in order, and the loop ends for every
\* finite listing.
C10_Pagination == [](PagesInOrder) /\ <>(PagerEnded)

\* pages of 100, 100 and 37 tags gave 237 versions
C10_Witness ==
    /\ pager.pc = "done"
    /\ Len(pager.pages) = 3
    /\ Len(pager.pages[1]) = PerPage /\ Len(pager.pages[2]) = PerPage
    /\ Len(pager.pages[3]) = ShortPage
    /\ Len(pager.result.val.versions) = 237
    /\ NoDuplicates(pager.result.val.versions)

(***************************************************************************)
(* The metadata cache: getMetadataAsJson as cache-aside.                   *)
(***************************************************************************)
RECURSIVE Count(_, _)
Count(s, x) ==
    IF s = <<>> THEN 0 ELSE (IF Head(s) = x THEN 1 ELSE 0) + Count(Tail(s), x)

\* the call of redis.getAsync(this.keys.metadata) of query r answers in
\* this step, and it answers with a value or with nothing
MetaGetAnswers(r) ==
    /\ req[r].pc = "metaGet"
    /\ req'[r] # req[r]
    /\ req'[r].raised # RedisError

\* the call of redis.setAsync(this.keys.metadata, ...) of query r answers
MetaSetAnswers(r) ==
    /\ req[r].pc = "metaSet"
    /\ req'[r] # req[r]
    /\ req'[r].raised # RedisError

\* the cache after the entry under key has become text, kept for ttl
WithEntry(key, text, ttl) ==
    [k \in DOMAIN cache \cup {key} |->
        IF k = key THEN [val |-> text, ex |-> ttl] ELSE cache[k]]

\* a hit hands on the entry as it is: no fetch, no write
HitReturnsEntry ==
    [][\A r \in DOMAIN req :
          LET q == req[r]
              p == req'[r]
              key == keys(q).metadata
          IN  (MetaGetAnswers(r) /\ Cached(key)) =>
                 /\ cache' = cache
                 /\ p.fx = Append(q.fx, "get metadata")
                 /\ p.pc \notin {"metaFetch", "metaSet"}
                 /\ q.op = "versions" => p.body = cache[key].val
                 /\ (q.op # "versions" /\ ~ParseThrows(cache[key].val)) =>
                        p.metadata = Parse(cache[key].val)]_vars

\* a miss goes upstream, once
MissFetches ==
    [][\A r \in DOMAIN req :
          LET q == req[r]
              p == req'[r]
          IN  (MetaGetAnswers(r) /\ ~Cached(keys(q).metadata)) =>
                 /\ cache' = cache
                 /\ p.pc = "metaFetch"]_vars

FetchesAtMostOnce ==
    \A r \in DOMAIN req : Count(req[r].fx, "fetch metadata") <= 1

\* what was fetched is written, serialized, under the metadata key with
\* the maxAge of the type, and the same text is returned
MissWrites ==
    [][\A r \in DOMAIN req :
          LET q == req[r]
              p == req'[r]
              key == keys(q).metadata
              ttl == IF q.type = "npm" THEN "v1.npm.maxAge" ELSE "v1.gh.maxAge"
          IN  MetaSetAnswers(r) =>
                 /\ q.fx = <<"get metadata", "fetch metadata">>
                 /\ q.json = Stringify(q.fetched)
                 /\ cache' = WithEntry(key, q.json, ttl)
                 /\ q.op = "versions" => p.body = q.json
                 /\ (q.op # "versions" /\ ~ParseThrows(q.json)) =>
                        p.metadata = Parse(q.json)]_vars

\* C11: getMetadataAsJson is cache-aside. An entry under the metadata key
\* is returned as it is, with no upstream fetch and no write; with no
\* entry there is one upstream fetch and, when it succeeds, its serialized
\* result is written under the metadata key with the maxAge of the
\* package type and that same text is returned.
C11_CacheAside ==
    /\ HitReturnsEntry
    /\ MissFetches
    /\ [](FetchesAtMostOnce)
    /\ MissWrites

\* a miss that ended in a write, and the payload of ListVersions is the
\* entry
C11_Witness ==
    \E r \in DOMAIN req :
        LET q == req[r]
            key == keys(q).metadata
        IN  /\ q.op = "versions" /\ q.type = "gh" /\ q.pc = "done"
            /\ q.fx = <<"get metadata", "fetch metadata", "set metadata">>
            /\ Cached(key)
            /\ cache[key] = [val |-> q.body, ex |-> "v1.gh.maxAge"]

\* a hit on an entry that an earlier query wrote
C11_WitnessHit ==
    \E r \in DOMAIN req :
        LET q == req[r]
            key == keys(q).metadata
        IN  /\ q.op = "versions" /\ q.pc = "done"
            /\ q.fx = <<"get metadata">>
            /\ Cached(key) /\ cache[key].ex = "v1.npm.maxAge"
            /\ q.body = cache[key].val

(***************************************************************************)
(* Failed fetches and the cache.                                           *)
(***************************************************************************)
Last(s) == s[Len(s)]

\* the upstream fetch of query q has failed and the query is over
MetadataFetchFailed(q) ==
    /\ q.pc = "done" /\ q.fx # <<>> /\ Last(q.fx) = "fetch metadata"
FilesFetchFailed(q) ==
    /\ q.pc = "done" /\ q.fx # <<>> /\ Last(q.fx) = "fetch files"

\* an entry that holds an error payload
IsNegative(entry) ==
    /\ entry.val # Corrupt
    /\ "status" \in DOMAIN entry.val.val

\* the expiry that a successful result gets under key
PositiveExpiry(key) ==
    IF Last(key) = "files" THEN "none"
    ELSE IF key[2] = "npm" THEN "v1.npm.maxAge" ELSE "v1.gh.maxAge"

\* C12: a failed upstream fetch is stored in the cache as well, under the
\* key of the successful result, and a stored failure expires by another
\* policy than a stored success.
C12_NegativeCaching ==
    /\ \A r \in DOMAIN req :
          /\ (MetadataFetchFailed(req[r]) /\ req[r].type # "other") =>
                Cached(keys(req[r]).metadata)
          /\ FilesFetchFailed(req[r]) => Cached(keys(req[r]).files)
    /\ \A key \in DOMAIN cache :
          IsNegative(cache[key]) => cache[key].ex # PositiveExpiry(key)

\* the two halves of C12, each on its own
C12_FailuresAreStored ==
    \A r \in DOMAIN req :
        /\ (MetadataFetchFailed(req[r]) /\ req[r].type # "other") =>
              Cached(keys(req[r]).metadata)
        /\ FilesFetchFailed(req[r]) => Cached(keys(req[r]).files)
C12_NegativeExpiresOtherwise ==
    \A key \in DOMAIN cache :
        IsNegative(cache[key]) => cache[key].ex # PositiveExpiry(key)

(***************************************************************************)
(* Metadata through the cache and back.                                    *)
(***************************************************************************)
\* the parsed object reads as the fetched one: the versions in the same
\* order, and metadata.tags the same value
SameMetadata(parsed, fetched) ==
    /\ "versions" \in DOMAIN parsed
    /\ parsed.versions = fetched.versions
    /\ TagsOf(parsed) = fetched.tags

C13_WitnessGitHub ==
    \E r \in DOMAIN req :
        LET q == req[r]
        IN  /\ q.type = "gh" /\ q.pc = "done"
            /\ Cached(keys(q).metadata)
            /\ q.metadata # NoMetadata
            /\ q.fetched.versions = <<"master", "1.0.0">>
            /\ q.fetched.tags = TagsArray

\* registry metadata without dist-tags has gone through the cache
C13_WitnessNoTags ==
    \E r \in DOMAIN req :
        LET q == req[r]
        IN  /\ q.type = "npm" /\ q.pc = "done"
            /\ Cached(keys(q).metadata)
            /\ q.metadata # NoMetadata
            /\ q.fetched.tags = TagsUndefined

(***************************************************************************)
(* The totals of the stats payloads.                                       *)
(***************************************************************************)
\* the sum of the hits of a { date: hits } object
RECURSIVE HitsOf(_, _)
HitsOf(dates, ds) ==
    IF ds = {} THEN 0
    ELSE LET d == CHOOSE x \in ds : TRUE
         IN  dates.kids[d].n + HitsOf(dates, ds \ {d})

\* over the entries { total, dates } of a payload: the sum of the totals,
\* and the sum of all hits
RECURSIVE SumOfTotals(_, _)
SumOfTotals(entries, ks) ==
    IF ks = {} THEN 0
    ELSE LET k == CHOOSE x \in ks : TRUE
         IN  entries.kids[k].kids.total.n + SumOfTotals(entries, ks \ {k})
RECURSIVE SumOfHits(_, _)
SumOfHits(entries, ks) ==
    IF ks = {} THEN 0
    ELSE LET k == CHOOSE x \in ks : TRUE
             dates == entries.kids[k].kids.dates
         IN  HitsOf(dates, DOMAIN dates.kids) + SumOfHits(entries, ks \ {k})

Answered(q, op) == q.op = op /\ q.pc = "done" /\ q.thrown = NoError

\* every hit is counted once in the payload of PackageStats
PackageStatsTotals ==
    \A r \in DOMAIN req :
        Answered(req[r], "packageStats") =>
            LET b == req[r].body
            IN  /\ b.total = SumOfTotals(b.versions, DOMAIN b.versions.kids)
                /\ b.total = SumOfHits(b.versions, DOMAIN b.versions.kids)

\* every hit is counted once in the payload of VersionStats
VersionStatsTotals ==
    \A r \in DOMAIN req :
        Answered(req[r], "versionStats") =>
            LET b == req[r].body
            IN  /\ b.total = SumOfTotals(b.files, DOMAIN b.files.kids)
                /\ b.total = SumOfHits(b.files, DOMAIN b.files.kids)

C14_WitnessPackageStats ==
    \E r \in DOMAIN req :
        /\ Answered(req[r], "packageStats")
        /\ req[r].body.total = 6

(***************************************************************************)
(* The stats handlers and the cache.                                       *)
(***************************************************************************)
StatsOps == {"packageStats", "versionStats"}

\* a step of a stats handler of query r
StatsStep(r) ==
    /\ req[r].op \in StatsOps
    /\ req[r].pc = "dbQuery"
    /\ req'[r] # req[r]

\* the stats handlers call nothing but the database, once per query
StatsAskTheDatabase ==
    \A r \in DOMAIN req :
        req[r].op \in StatsOps =>
            /\ \A i \in DOMAIN req[r].fx : req[r].fx[i] = "db"
            /\ req[r].pc = "done" => req[r].fx = <<"db">>

\* no key of the store is a packageStats or a versionsStats key
NoStatsKey == \A key \in DOMAIN cache : Last(key) # "stats"

\* C15: PackageStats and VersionStats neither read nor write the cache.
\* Every call asks the database afresh and leaves every key of the store
\* as it is, the packageStats and versionsStats keys of the constructor
\* included, which never hold anything.
C15_StatsLeaveCacheAlone ==
    /\ [](StatsAskTheDatabase)
    /\ [](NoStatsKey)
    /\ [][\A r \in DOMAIN req : StatsStep(r) => cache' = cache]_vars

\* VersionStats has answered from the database while the store holds the
\* metadata of the package
C15_Witness ==
    \E r \in DOMAIN req :
        LET q == req[r]
        IN  /\ Answered(q, "versionStats")
            /\ q.body.total > 0
            /\ q.fx = <<"db">>
            /\ Cached(keys(q).metadata)
            /\ ~ParseThrows(cache[keys(q).metadata].val)

(***************************************************************************)
(* The life of an entry, with queries in flight at the same time.          *)
(***************************************************************************)
\* C16: once a value is written under a key, the value under that key does
\* not change until the entry has expired; only the write of a fetch made
\* after the expiry replaces it. This is to hold in every interleaving,
\* that of two queries that both missed before either wrote and fetched
\* different data included.
C16_WrittenValueStays ==
    [][\A key \in DOMAIN cache :
          key \in DOMAIN cache' => cache'[key].val = cache[key].val]_vars

\* what a query answers after its own write is made of what it fetched
AnswersFromOwnFetch ==
    \A r \in DOMAIN req :
        LET q == req[r]
        IN  /\ (Answered(q, "versions") /\ "set metadata" \in Elements(q.fx)) =>
                  /\ q.fetched # NoMetadata
                  /\ q.body = Stringify(q.fetched)
            /\ (Answered(q, "files") /\ Last(q.fx) = "set files") =>
                  q.body = Parse(q.json)

\* a query that has missed can go on, whatever the other query is doing
NeverWaits ==
    \A r \in DOMAIN req :
        /\ req[r].pc = "metaGet" => ENABLED MetaGet(r)
        /\ req[r].pc = "metaFetch" => ENABLED MetaFetch(r, SharedAnswers)
        /\ req[r].pc = "metaSet" => ENABLED MetaSet(r)
        /\ req[r].pc = "filesGet" => ENABLED FilesGet(r)
        /\ req[r].pc = "filesFetch" => ENABLED FilesFetch(r)
        /\ req[r].pc = "filesSet" => ENABLED FilesSet(r)

\* a query fetches only after its own read of the key has found nothing,
\* and once for that read
FetchAfterOwnMiss ==
    [][\A r \in DOMAIN req :
          LET q == req[r]
              p == req'[r]
          IN  /\ (p.pc = "metaFetch" /\ q.pc # "metaFetch") =>
                    (q.pc = "metaGet" /\ ~Cached(keys(q).metadata))
              /\ (p.pc = "filesFetch" /\ q.pc # "filesFetch") =>
                    (q.pc = "filesGet" /\ ~Cached(keys(q).files))
              /\ Count(p.fx, "fetch metadata") > Count(q.fx, "fetch metadata") =>
                    (q.pc = "metaFetch" /\ p.pc # "metaFetch")
              /\ Count(p.fx, "fetch files") > Count(q.fx, "fetch files") =>
                    (q.pc = "filesFetch" /\ p.pc # "filesFetch")]_vars

\* C17: the cache is used without a lock. Two queries for one key that
\* both read before either writes each make their own upstream fetch,
\* neither waits for the other, and each answers from what it fetched
\* itself; a key is fetched at most once for each query that has read it
\* and found nothing.
C17_NoLocking ==
    /\ [](AnswersFromOwnFetch)
    /\ [](NeverWaits)
    /\ FetchAfterOwnMiss

\* both queries have missed, fetched and written, and they have answered
\* with different version lists
C17_Witness ==
    /\ \A r \in DOMAIN req :
          /\ Answered(req[r], "versions")
          /\ req[r].fx = <<"get metadata", "fetch metadata", "set metadata">>
    /\ \E r1, r2 \in DOMAIN req : req[r1].body # req[r2].body

(***************************************************************************)
(* A metadata fetch that fails.                                            *)
(***************************************************************************)
\* the fetch of query r fails in this step
MetaFetchFails(r) ==
    /\ req[r].pc = "metaFetch"
    /\ req'[r] # req[r]
    /\ req'[r].pc # "metaSet"

\* the failure is raised to the handler; nothing is written and nothing
\* of the fetch is kept
FailedFetchWritesNothing ==
    [][\A r \in DOMAIN req :
          MetaFetchFails(r) =>
             /\ cache' = cache
             /\ req'[r].raised # NoError
             /\ req'[r].json = NoJson
             /\ req'[r].fetched = NoMetadata
             /\ req'[r].fx = Append(req[r].fx, "fetch metadata")]_vars

\* after the failure the metadata key holds nothing
NothingUnderFailedKey ==
    \A r \in DOMAIN req :
        MetadataFetchFailed(req[r]) =>
            /\ ~Cached(keys(req[r]).metadata)
            /\ req[r].raised # NoError

\* C18: a metadata fetch that fails leaves the cache as it was. When the
\* registry response has no versions, when every registry source fails or
\* when a page of the tag listing fails, the error is raised again,
\* neither a partial version list nor a negative entry is written under
\* the metadata key, and the next query for the key fetches again.
C18_FailedFetchLeavesCache ==
    /\ FailedFetchWritesNothing
    /\ [](NothingUnderFailedKey)
    /\ MissFetches

\* the tag listing has failed with a 403 and the query has ended with
\* nothing under the key
C18_Witness ==
    \E r \in DOMAIN req :
        LET q == req[r]
        IN  /\ q.type = "gh"
            /\ MetadataFetchFailed(q)
            /\ q.raised = HTTPError(403)
            /\ q.body.status = 404
            /\ ~Cached(keys(q).metadata)

\* a registry response without versions has ended the query likewise
C18_WitnessNoVersions ==
    \E r \in DOMAIN req :
        LET q == req[r]
        IN  /\ q.type = "npm"
            /\ MetadataFetchFailed(q)
            /\ q.raised \notin {HTTPError(403), HTTPError(500), RequestError}
            /\ ~Cached(keys(q).metadata)

\* the tag listing keeps no partial result: when a page fails, the pages
\* that had arrived are not returned
NoPartialListing ==
    pager.pc = "failed" => (~pager.result.ok /\ pager.result.err # NoError)
NoPartialListing_Witness ==
    /\ pager.pc = "failed" /\ pager.logged
    /\ Len(pager.received) = 2
    /\ Len(pager.versions) = 2 * PerPage

(***************************************************************************)
(* A 403 of the file-listing service.                                      *)
(***************************************************************************)
ForbiddenPayload == [status |-> 403, message |-> "upstream body"]

\* the service answers the fetch of query r with a 403 in this step
ForbiddenAnswer(r) ==
    /\ req[r].pc = "filesFetch"
    /\ req'[r] # req[r]
    /\ req'[r].upstream.kind # "none"
    /\ req'[r].upstream.hasResponse
    /\ req'[r].upstream.status = 403

\* the 403 becomes a payload that goes on to the write
ForbiddenBecomesPayload ==
    [][\A r \in DOMAIN req :
          ForbiddenAnswer(r) =>
             /\ req'[r].pc = "filesSet"
             /\ req'[r].raised = NoError
             /\ req'[r].json = Stringify(ForbiddenPayload)]_vars

\* the write of a listing or of a 403 payload: the same key, no expiry
FilesWrite ==
    [][\A r \in DOMAIN req :
          LET q == req[r]
              p == req'[r]
          IN  (q.pc = "filesSet" /\ p # q /\ p.raised # RedisError) =>
                 /\ cache' = WithEntry(keys(q).files, q.json, "none")
                 /\ p.body = Parse(q.json)]_vars

FilesNeverExpire ==
    \A key \in DOMAIN cache : Last(key) = "files" => cache[key].ex = "none"

\* an entry under the files key answers the query: the service is not
\* asked
FilesHit ==
    [][\A r \in DOMAIN req :
          LET q == req[r]
              p == req'[r]
              key == keys(q).files
          IN  (q.pc = "filesGet" /\ p # q /\ p.raised # RedisError /\ Cached(key)) =>
                 /\ cache' = cache
                 /\ p.pc = "done"
                 /\ p.fx = Append(q.fx, "get files")
                 /\ p.upstream = NoError
                 /\ p.body = Parse(cache[key].val)]_vars

\* C19: a 403 of the file-listing service becomes the payload
\* { status: 403, message: <upstream body> } instead of an exception and
\* is stored under the files key without expiry, as a listing is. Every
\* later VersionFiles query for the same type, name and version gets that
\* payload from the store without the service being asked, as long as
\* the entry is there, whatever the service would answer by then.
C19_ForbiddenIsCached ==
    /\ ForbiddenBecomesPayload
    /\ FilesWrite
    /\ [](FilesNeverExpire)
    /\ FilesHit

\* a query has been answered with the 403 payload from the store, without
\* a fetch of its own
C19_Witness ==
    \E r \in DOMAIN req :
        LET q == req[r]
            key == keys(q).files
        IN  /\ Answered(q, "files")
            /\ Last(q.fx) = "get files"
            /\ "fetch files" \notin Elements(q.fx)
            /\ q.upstream = NoError
            /\ q.body = ForbiddenPayload
            /\ Cached(key) /\ cache[key] = [val |-> Stringify(ForbiddenPayload), ex |-> "none"]

(***************************************************************************)
(* Source-host metadata and the tag rule.                                  *)
(***************************************************************************)
\* the metadata of the source-host fetcher has the names in upstream order
UpstreamOrder ==
    \A pages \in ResolveAnswers("gh") :
        LET res == fetchMetadata("gh", pages)
        IN  /\ res.ok
            /\ res.val.versions = [i \in DOMAIN pages[1] |-> pages[1][i].name]

\* C20: metadata of the source-host variant has a tags mapping with no
\* key at all and the versions in upstream order, so no specifier is
\* resolved through the tag rule for it: every result is the exact
\* specifier, the latest fallback or the result of the range.
C20_SourceHostSkipsTags ==
    /\ UpstreamOrder
    /\ \A r \in DOMAIN req :
          LET q == req[r]
              m == q.metadata
          IN  q.type = "gh" =>
                 /\ q.fetched # NoMetadata =>
                       \A k \in Specifiers : ~hasOwnProperty(q.fetched.tags, k)
                 /\ Resolved(q) =>
                       /\ q.version \notin Elements(m.versions) => ~IsTagKey(m, q.version)
                       /\ IF q.version \in Elements(m.versions)
                          THEN q.body = [version |-> q.version]
                          ELSE IF IsLatestKeyword(q.version)
                          THEN PicksFrom(q, Releases(m))
                          ELSE PicksFrom(q, Satisfying(m, q.version))

\* the claim but for the one own property of an array
C20_ButForLength ==
    /\ UpstreamOrder
    /\ \A r \in DOMAIN req :
          LET q == req[r]
              m == q.metadata
          IN  (q.type = "gh" /\ q.version # "length") =>
                 /\ q.fetched # NoMetadata =>
                       \A k \in Specifiers \ {"length"} : ~hasOwnProperty(q.fetched.tags, k)
                 /\ Resolved(q) =>
                       /\ q.version \notin Elements(m.versions) => ~IsTagKey(m, q.version)
                       /\ IF q.version \in Elements(m.versions)
                          THEN q.body = [version |-> q.version]
                          ELSE IF IsLatestKeyword(q.version)
                          THEN PicksFrom(q, Releases(m))
                          ELSE PicksFrom(q, Satisfying(m, q.version))

\* the specifier "length" has been answered from the tags of source-host
\* metadata
C20_LengthResolved ==
    \E r \in DOMAIN req :
        /\ req[r].type = "gh" /\ req[r].version = "length"
        /\ Resolved(req[r])
        /\ req[r].body = [version |-> NumberZero]

====
